---- MODULE Spec2Model ----
(***************************************************************************)
(* Model of sync.py: one-way sync of completed Todoist tasks to Habitify   *)
(* habit logs.  An invocation of sync_tasks is a process that steps        *)
(* through its I/O points (state file, task service, habit service); the   *)
(* environment (clock, services, file system) answers each step            *)
(* nondeterministically.                                                   *)
(***************************************************************************)
EXTENDS Integers, Sequences, FiniteSets, TLC

VARIABLES
    clock,            \* datetime.now(), in ticks
    file,             \* content of .sync_state.json
    world,            \* tasks completed so far, as the task service knows them
    runs,             \* number of invocations started
    pc,               \* per process: position inside sync_tasks
    run_id,           \* per process: which invocation it is executing
    environ,          \* per process: the credentials in its environment
    last_sync,        \* per process: what load_sync_state returned (line 154)
    since,            \* per process: since_datetime (ticks)
    until,            \* per process: now_str sent as `until`
    completed_tasks,  \* per process: items returned by the task service
    habits,           \* per process: what get_habitify_habits returned
    idx,              \* per process: position of the for loop (line 188)
    synced_count,     \* per process: line 187/217
    log_calls,        \* per process: create_habitify_log calls of this run
    effects,          \* per process: I/O effects of this run, in order
    exit_code,        \* per process: process exit status (-1 while running)
    commit_timestamp, \* per process: the argument of save_sync_state
    save_result,      \* per process: how save_sync_state ended
    submitted,        \* history: log-create requests, by run and task
    honest,           \* history: the task service answered every request exactly
    malformed,        \* per process: a list response of this run was malformed
    served            \* the habit sequence the habit service answers with in Envelope

vars == <<clock, file, world, runs, pc, run_id, environ, last_sync, since, until,
          completed_tasks, habits, idx, synced_count, log_calls, effects,
          exit_code, commit_timestamp, save_result, submitted, honest, malformed,
          served>>

----------------------------------------------------------------------------
(* Bounds of the model *)

MaxRuns == 2
MaxTicks == 2
MaxTasks == 2
MaxHabits == 2
TicksPerMinute == 2
MaxLoopTasks == 3
\* Tasks completed over the repeated runs of Spec
MaxRepeatTasks == 1
\* Ticks of the clock while invocations overlap, in Concurrent
MaxOverlapTicks == 1

(* Program constants *)

BootstrapMinutes == 60

Procs == {1, 2}

\* The scheduler's process: sequential invocations all run as this one.
Cron == CHOOSE p \in Procs : \A q \in Procs : p <= q

ClockStart == BootstrapMinutes * TicksPerMinute

----------------------------------------------------------------------------
(* Strings: a name is a sequence of characters *)

LowerChar(c) ==
    CASE c = "R" -> "r"
      [] c = "B" -> "b"
      [] c = "A" -> "a"
      [] OTHER -> c

\* str.lower()
Lower(s) == [i \in 1..Len(s) |-> LowerChar(s[i])]

TaskNames == { <<"R", "b">>, <<"r", "a", "b">> }

----------------------------------------------------------------------------
(* Timestamps.  A datetime is a tick count; isoformat() keeps the whole    *)
(* value, strftime('%Y-%m-%dT%H:%M') keeps the minute only.                *)

\* The microsecond field of a datetime: zero, or not.  It is below the
\* resolution of the clock, so every reading of the clock may have either.
Micros == {0, 1}

\* datetime.isoformat() of the datetime at tick t with microsecond field us:
\* <<minute, tick of the minute>>, and a third component only when the
\* microseconds are not zero ('.ffffff' is left out when they are, whatever
\* the seconds)
IsoFormat(t, us) ==
    IF us = 0 THEN <<t \div TicksPerMinute, t % TicksPerMinute>>
    ELSE <<t \div TicksPerMinute, t % TicksPerMinute, us>>

\* The seconds are dropped
FromIsoFormatMinute(s) == s[1] * TicksPerMinute

\* datetime.fromisoformat() of a string isoformat() wrote, as a tick
FromIsoFormat(s) == s[1] * TicksPerMinute + s[2]

\* datetime.strftime('%Y-%m-%dT%H:%M'): the minute, seconds dropped
StrfMinute(t) == t \div TicksPerMinute

NoIso == <<0, 0>>

\* The zone suffix of a timestamp string: 'Z', or a signed offset written
\* with or without a colon (+07:00, +0700)
ZoneZ == [kind |-> "z", sign |-> "+", minutes |-> 0, colon |-> FALSE]

ZoneOffset(sign, minutes, colon) ==
    [kind |-> "offset", sign |-> sign, minutes |-> minutes, colon |-> colon]

\* task['completed_at'] as the task service writes it: UTC wall time and 'Z'
CompletedAt(t) == [wall |-> IsoFormat(t, 0), zone |-> ZoneZ]

\* line 194: completed_at.replace('Z', '+00:00')
ReplaceZ(s) ==
    IF s.zone.kind = "z" THEN [s EXCEPT !.zone = ZoneOffset("+", 0, TRUE)] ELSE s

\* line 194: datetime.fromisoformat of a string with an offset: an aware
\* datetime, wall time and utcoffset (signed minutes)
FromIsoFormatAware(s) ==
    [wall |-> FromIsoFormat(s.wall),
     utcoffset |-> IF s.zone.sign = "-" THEN 0 - s.zone.minutes ELSE s.zone.minutes]

\* line 196: strftime('%Y-%m-%dT%H:%M:%S%z') keeps the datetime's own wall
\* time and offset; %z writes the offset without a colon
StrftimeZ(d) ==
    [wall |-> IsoFormat(d.wall, 0),
     zone |-> ZoneOffset(IF d.utcoffset < 0 THEN "-" ELSE "+",
                         IF d.utcoffset < 0 THEN 0 - d.utcoffset ELSE d.utcoffset,
                         FALSE)]

\* lines 198-199: a colon is put into a trailing signed offset
InsertColon(s) ==
    IF s.zone.kind = "offset" THEN [s EXCEPT !.zone.colon = TRUE] ELSE s

\* lines 194-199: the target date sent for a completion timestamp
TargetDate(completed_at) ==
    InsertColon(StrftimeZ(FromIsoFormatAware(ReplaceZ(completed_at))))

----------------------------------------------------------------------------
(* State file *)

\* What the file holds:
\*   "missing"     no file
\*   "undecodable" bytes that are not text in the encoding open() reads with
\*   "notjson"     text that is not JSON (an empty or cut-off file included)
\*   "nonobject"   JSON that is not an object
\*   "nolastsync"  an object without last_sync, or with a falsy one
\*   "badts"       an object whose last_sync fromisoformat() raises on
\*   "valid"       {"last_sync": <isoformat() of a datetime>}
\* written: the characters the file holds, one element for each, as
\* save_sync_state wrote them since the file was last emptied; they decide
\* what a later write from offset 0 leaves behind.  For a file no run has
\* opened yet it is left empty: every write comes after the writer's own
\* open, which empties the file, so no write meets those bytes.

Digits == <<"0", "1", "2", "3", "4", "5", "6", "7", "8", "9">>

IsDigit(c) == \E n \in 1..Len(Digits) : Digits[n] = c

DigitValue(c) == (CHOOSE n \in 1..Len(Digits) : Digits[n] = c) - 1

TwoDigits(n) == <<Digits[(n \div 10) + 1], Digits[(n % 10) + 1]>>

SecondsPerTick == 60 \div TicksPerMinute

\* The day the clock runs in, as isoformat() writes it before the time;
\* minutes count from its midnight
DateT == <<"2", "0", "2", "4", "-", "0", "1", "-", "0", "1", "T">>

\* A digit of the microsecond field stands as "u": its value is not kept
MicroDigit == "u"

\* The characters of the string isoformat() returns: YYYY-MM-DDTHH:MM:SS,
\* and .ffffff when the microseconds are not zero
IsoText(timestamp) ==
    DateT \o TwoDigits(timestamp[1] \div 60) \o <<":">>
          \o TwoDigits(timestamp[1] % 60) \o <<":">>
          \o TwoDigits(timestamp[2] * SecondsPerTick)
          \o (IF Len(timestamp) = 3
              THEN <<".">> \o [i \in 1..6 |-> MicroDigit] ELSE <<>>)

\* What json.dump writes before the value: {"last_sync": "
RecordHead ==
    <<"{", "\"", "l", "a", "s", "t", "_", "s", "y", "n", "c", "\"", ":", " ", "\"">>

\* line 42: the text json.dump writes for {'last_sync': timestamp}, 36
\* characters, or 43 with microseconds
RecordText(timestamp) == RecordHead \o IsoText(timestamp) \o <<"\"", "}">>

\* datetime.fromisoformat on a string of 19 or 26 characters (the closing
\* quote of a record is written at offset 35 or 42 only): the timestamp it
\* stands for, or that it raises ValueError
ParseIso(content) ==
    LET n == Len(content)
        shaped == /\ n \in {19, 26}
                  /\ SubSeq(content, 1, 11) = DateT
                  /\ \A i \in {12, 13, 15, 16, 18, 19} : IsDigit(content[i])
                  /\ content[14] = ":" /\ content[17] = ":"
                  /\ n = 26 => /\ content[20] = "."
                               /\ \A i \in 21..26 : content[i] = MicroDigit
        hour == 10 * DigitValue(content[12]) + DigitValue(content[13])
        minute == 10 * DigitValue(content[15]) + DigitValue(content[16])
        second == 10 * DigitValue(content[18]) + DigitValue(content[19])
        value == <<60 * hour + minute, second \div SecondsPerTick>>
    IN  IF ~shaped THEN [ok |-> FALSE, v |-> NoIso]
        ELSE IF hour > 23 \/ minute > 59 \/ second > 59
             THEN [ok |-> FALSE, v |-> NoIso]
             ELSE [ok |-> TRUE, v |-> IF n = 26 THEN value \o <<1>> ELSE value]

\* json.load, state.get('last_sync') and fromisoformat on a text made of
\* characters of records: it is JSON when the head is whole, the text ends
\* with a quote and a brace, and no quote stands between the head and that
\* one (the string that follows the head closes at its first quote, and
\* nothing but the brace may follow it)
ReadText(text) ==
    LET n == Len(text)
        h == Len(RecordHead)
        json == /\ n >= h + 2
                /\ text[n] = "}"
                /\ text[n - 1] = "\""
                /\ SubSeq(text, 1, h) = RecordHead
                /\ \A i \in (h + 1)..(n - 2) : text[i] # "\""
        content == SubSeq(text, h + 1, n - 2)
        LastSyncOf(value) ==
            LET parsed == ParseIso(value)
            IN  IF value = <<>> THEN [kind |-> "nolastsync", last_sync |-> NoIso]
                ELSE IF ~parsed.ok THEN [kind |-> "badts", last_sync |-> NoIso]
                ELSE [kind |-> "valid", last_sync |-> parsed.v]
    IN  IF ~json THEN [kind |-> "notjson", last_sync |-> NoIso]
        ELSE CHOOSE read \in {LastSyncOf(value) : value \in {content}} : TRUE

\* The file that holds the text (read once, as one value)
Written(text) ==
    LET Holding(t) ==
            LET read == ReadText(t)
            IN  [kind |-> read.kind, last_sync |-> read.last_sync, written |-> t]
    IN  CHOOSE f \in {Holding(t) : t \in {text}} : TRUE

ValidFile(t, us) == Written(RecordText(IsoFormat(t, us)))
OtherFile(k) == [kind |-> k, last_sync |-> NoIso, written |-> <<>>]

\* load_sync_state: what it returns ([some, iso, v]: a value is returned,
\* it is a string isoformat() wrote, the string) or that it raised.
\* `readable` is FALSE when open/read raises IOError.  Line 33 catches
\* JSONDecodeError and IOError only: the UnicodeDecodeError of undecodable
\* bytes and the AttributeError of state.get on a non-object go through.
LoadSyncState(f, readable) ==
    LET none == [raised |-> FALSE, some |-> FALSE, iso |-> FALSE, v |-> NoIso]
    IN  CASE f.kind = "missing" -> none
          [] f.kind # "missing" /\ ~readable -> none
          [] f.kind = "undecodable" /\ readable -> [none EXCEPT !.raised = TRUE]
          [] f.kind = "notjson" /\ readable -> none
          [] f.kind = "nonobject" /\ readable -> [none EXCEPT !.raised = TRUE]
          [] f.kind = "nolastsync" /\ readable -> none
          [] f.kind = "badts" /\ readable -> [none EXCEPT !.some = TRUE]
          [] f.kind = "valid" /\ readable ->
                [raised |-> FALSE, some |-> TRUE, iso |-> TRUE, v |-> f.last_sync]

\* The value of the variable last_sync of sync_tasks
LastSync(r) == [some |-> r.some, iso |-> r.iso, v |-> r.v]

NoLastSync == [some |-> FALSE, iso |-> FALSE, v |-> NoIso]

\* The first run scans from the current time
SinceDatetimeNoBootstrap(last, now) ==
    IF last.some THEN FromIsoFormat(last.v) ELSE now

\* lines 155-160: since_datetime, from last_sync or from datetime.now()
SinceDatetime(last, now) ==
    IF last.some THEN FromIsoFormat(last.v)
    ELSE now - BootstrapMinutes * TicksPerMinute

\* How save_sync_state ends: it returned, open raised, the write or the
\* close raised
SaveOutcomes == {"ok", "open_failed", "write_failed"}

\* line 41: open(..., 'w') empties the file
OpenTruncate(f) == Written(<<>>)

\* A write of `text` from offset 0 over `old`: what `old` holds beyond the
\* end of `text` stays
Overlay(old, text) ==
    IF Len(text) >= Len(old) THEN text
    ELSE text \o SubSeq(old, Len(text) + 1, Len(old))

\* How the buffered write of the record ends, at the close of line 41: so
\* many characters reached the file (all of them, or fewer when the write
\* stops on the way: a size limit, a full disk), and IOError was raised or
\* not.  It is raised whenever a part is missing, and the close may raise
\* it as well after the whole record went out.
Flushes(timestamp) ==
    LET whole == Len(RecordText(timestamp))
    IN  {fl \in [reached : 0..whole, raised : BOOLEAN] :
            fl.reached < whole => fl.raised}

\* line 42 and the close of line 41: the record, or the part of it that
\* gets out, is written from offset 0 over the file as it is then
JsonDump(f, timestamp, fl) ==
    Written(Overlay(f.written, SubSeq(RecordText(timestamp), 1, fl.reached)))

\* lines 43-44: whether IOError was caught
DumpResult(fl) == IF fl.raised THEN "write_failed" ELSE "ok"

\* save_sync_state with nothing else touching the file meanwhile; `opened`
\* is FALSE when open raises IOError
SaveSyncState(f, timestamp, opened, fl) ==
    IF opened THEN JsonDump(OpenTruncate(f), timestamp, fl) ELSE f

SaveResult(opened, fl) ==
    IF opened THEN DumpResult(fl) ELSE "open_failed"

\* Nothing is flushed when the file was not opened
NoFlush == [reached |-> 0, raised |-> TRUE]

----------------------------------------------------------------------------
(* Credentials *)

Tokens == {"", "secret"}

\* Only the token is checked
CredentialsOkTokenOnly(token, key) == token # ""

\* lines 145-151: both credentials must be non-empty
CredentialsOk(token, key) == token # "" /\ key # ""

----------------------------------------------------------------------------
(* Task service *)

\* One item of result['items'].  date: "z" a well-formed 'Z'-suffixed
\* timestamp, "malformed" a value fromisoformat/replace raises on,
\* "absent" no completed_at key.
TaskItem(t) ==
    [id |-> t.id, has_content |-> TRUE, content |-> t.content,
     date |-> "z", at |-> t.at]

\* The tasks completed in the half-open window [since_str, now_str), both
\* bounds at minute precision, in the service's order.
TasksInWindow(since_str, now_str) ==
    LET in(t) == /\ since_str * TicksPerMinute <= t.at
                 /\ t.at < now_str * TicksPerMinute
        sel == SelectSeq(world, in)
    IN  [i \in 1..Len(sel) |-> TaskItem(sel[i])]

ItemDefects == {"no_content", "no_completed_at", "bad_date"}

Damaged(item, d) ==
    CASE d = "no_content" -> [item EXCEPT !.has_content = FALSE]
      [] d = "no_completed_at" -> [item EXCEPT !.date = "absent"]
      [] d = "bad_date" -> [item EXCEPT !.date = "malformed"]

\* The date is parsed outside any try
ItemAccessNoTry(item) ==
    CASE ~item.has_content \/ item.date # "z" -> "raised"
      [] OTHER -> "parsed"

\* lines 189-202: task['content'] and task['completed_at'] raise KeyError
\* on a missing key; the parse of the date is inside try/except Exception,
\* which skips the task
ItemAccess(item) ==
    CASE ~item.has_content \/ item.date = "absent" -> "raised"
      [] item.has_content /\ item.date = "malformed" -> "skipped"
      [] OTHER -> "parsed"

\* What make_request ends with for the task-list call:
\*   "error"        None (HTTPError, URLError or JSONDecodeError caught)
\*   "raises"       an exception: the body of a response (line 59) or of an
\*                  HTTP error (line 62, inside the handler) is not UTF-8
\*   "empty"        a falsy JSON value ({}, [], 0, "", false, null)
\*   "object_items" an object with a sequence under 'items'
\*   "items_number" an object with a non-zero number under 'items'
\*   "object_other" a non-empty object without 'items'
\*   "array"        a non-empty array or string that does not contain 'items'
\*   "array_items"  an array or string that contains 'items'
\*   "number"       a non-zero number, or true
TaskResponse(kind, items) == [kind |-> kind, items |-> items]

HonestResponse(since_str, now_str) ==
    TaskResponse("object_items", TasksInWindow(since_str, now_str))

TaskResponses(since_str, now_str) ==
    LET items == TasksInWindow(since_str, now_str)
    IN  {HonestResponse(since_str, now_str)}
        \cup {TaskResponse(k, <<>>) :
                k \in {"error", "raises", "empty", "items_number", "object_other",
                       "array", "array_items", "number"}}
        \cup {TaskResponse("object_items", [items EXCEPT ![k] = Damaged(items[k], d)]) :
                k \in 1..Len(items), d \in ItemDefects}

\* get_completed_todoist_tasks, lines 85-89: `result and 'items' in result`
\* raises on a number, result['items'] raises on an array or string, and
\* what make_request raises goes through.  sized: len() takes the value.
GetCompletedTodoistTasks(resp) ==
    LET nothing == [raised |-> FALSE, sized |-> TRUE, items |-> <<>>]
    IN  CASE resp.kind \in {"error", "empty"} -> nothing
          [] resp.kind = "object_items" -> [nothing EXCEPT !.items = resp.items]
          [] resp.kind = "items_number" -> [nothing EXCEPT !.sized = FALSE]
          [] resp.kind \in {"object_other", "array"} -> nothing
          [] resp.kind \in {"number", "array_items", "raises"} ->
                [nothing EXCEPT !.raised = TRUE]

----------------------------------------------------------------------------
(* Habit service *)

Habit(id, name) == [has_id |-> TRUE, id |-> id, has_name |-> TRUE, name |-> name]

\* The habits the service may list: two whose names differ in case only,
\* the second without an id; one whose name has surrounding spaces; one
\* without a name.
HabitPool ==
    { Habit("h1", <<"R", "B">>),
      [Habit("", <<"r", "b">>) EXCEPT !.has_id = FALSE],
      Habit("h3", <<" ", "r", "b", " ">>),
      [Habit("h4", <<>>) EXCEPT !.has_name = FALSE] }

HabitLists ==
    UNION { { l \in [1..n -> HabitPool] : \A i, j \in 1..n : i # j => l[i] # l[j] }
            : n \in 0..MaxHabits }

\* What make_request ends with for the habit-list call:
\*   "error"        None
\*   "raises"       an exception: a body that is not UTF-8 (lines 59, 62)
\*   "empty"        a falsy JSON value other than [] ({}, 0, "", false, null)
\*   "array"        a bare sequence of habits (empty: falsy)
\*   "object_data"  an object holding the sequence under 'data'
\*   "object_other" a non-empty object without 'data'
\*   "number"       a non-zero number
HabitResponse(kind, list) == [kind |-> kind, list |-> list]

HabitResponses ==
    {HabitResponse(k, <<>>) :
        k \in {"error", "raises", "empty", "object_other", "number"}}
    \cup {HabitResponse(k, l) : k \in {"array", "object_data"}, l \in HabitLists}

\* The 'data' envelope is not opened
GetHabitifyHabitsNoEnvelope(resp) ==
    CASE resp.kind \in {"error", "empty"} -> [shape |-> "list", list |-> <<>>]
      [] resp.kind = "array" -> [shape |-> "list", list |-> resp.list]
      [] resp.kind \in {"object_data", "object_other"} ->
            [shape |-> "dict", list |-> <<>>]
      [] resp.kind = "number" -> [shape |-> "number", list |-> <<>>]
      [] resp.kind = "raises" -> [shape |-> "raised", list |-> <<>>]

\* get_habitify_habits, lines 99-110.  shape "list": a sequence of habits;
\* "dict": the response object itself; "number": the number itself;
\* "raised": nothing is returned, what make_request raised goes through.
GetHabitifyHabits(resp) ==
    CASE resp.kind \in {"error", "empty"} -> [shape |-> "list", list |-> <<>>]
      [] resp.kind = "array" -> [shape |-> "list", list |-> resp.list]
      [] resp.kind = "object_data" -> [shape |-> "list", list |-> resp.list]
      [] resp.kind = "object_other" -> [shape |-> "dict", list |-> <<>>]
      [] resp.kind = "number" -> [shape |-> "number", list |-> <<>>]
      [] resp.kind = "raises" -> [shape |-> "raised", list |-> <<>>]

\* line 184: {habit['name'].lower(): habit for habit in habits}; a later
\* habit replaces an earlier one under the same key
HabitKey(h) == Lower(h.name)

HabitMap(list) ==
    LET keys == {HabitKey(list[i]) : i \in 1..Len(list)}
        last(k) == CHOOSE i \in 1..Len(list) :
                      /\ HabitKey(list[i]) = k
                      /\ \A j \in 1..Len(list) : HabitKey(list[j]) = k => j <= i
    IN  [k \in keys |-> list[last(k)]]

\* The task name is looked up as it is
TaskKeyAsIs(name) == name

\* line 205: habit_map.get(task_name.lower())
TaskKey(name) == Lower(name)

Matches(m, name) == TaskKey(name) \in DOMAIN m

\* What the log-create call ends with:
\*   "status_true"      a JSON object with a truthy status
\*   "status_false"     a JSON object with a falsy status
\*   "no_status"        a JSON object without status
\*   "http_error"       a non-2xx status (HTTPError caught, None)
\*   "http_error_undecodable"  a non-2xx status whose body is not UTF-8:
\*                      line 134, inside the handler, raises
\*   "transport_error"  no response (caught by `except Exception`, None)
\*   "bad_json"         a 2xx body that is not JSON or not UTF-8 (caught by
\*                      `except Exception`, None)
\*   "nonobject_truthy" a JSON body that is a non-empty array/string or a number
\*   "nonobject_falsy"  a JSON body that is [], "", 0, false or null
LogOutcomes ==
    {"status_true", "status_false", "no_status", "http_error",
     "http_error_undecodable", "transport_error", "bad_json",
     "nonobject_truthy", "nonobject_falsy"}

\* create_habitify_log and line 215, `result and result.get('status')`:
\* the call counts, does not count, or an exception ends the run
LogResult(outcome) ==
    CASE outcome = "status_true" -> "success"
      [] outcome \in {"status_false", "no_status"} -> "failure"
      [] outcome \in {"http_error", "transport_error", "bad_json"} -> "failure"
      [] outcome = "nonobject_falsy" -> "failure"
      [] outcome \in {"nonobject_truthy", "http_error_undecodable"} -> "raised"

----------------------------------------------------------------------------
Init ==
    /\ clock = ClockStart
    /\ file \in {OtherFile(k) : k \in {"missing", "undecodable", "nonobject",
                                      "nolastsync", "badts"}}
                \cup {ValidFile(ClockStart - 1, 1)}
    /\ world = <<>>
    /\ runs = 0
    /\ pc = [p \in Procs |-> "idle"]
    /\ run_id = [p \in Procs |-> 0]
    /\ environ = [p \in Procs |-> [token |-> "", key |-> ""]]
    /\ last_sync = [p \in Procs |-> NoLastSync]
    /\ since = [p \in Procs |-> 0]
    /\ until = [p \in Procs |-> 0]
    /\ completed_tasks = [p \in Procs |-> <<>>]
    /\ habits = [p \in Procs |-> <<>>]
    /\ idx = [p \in Procs |-> 0]
    /\ synced_count = [p \in Procs |-> 0]
    /\ log_calls = [p \in Procs |-> <<>>]
    /\ effects = [p \in Procs |-> <<>>]
    /\ exit_code = [p \in Procs |-> -1]
    /\ commit_timestamp = [p \in Procs |-> NoIso]
    /\ save_result = [p \in Procs |-> "none"]
    /\ submitted = {}
    /\ honest = TRUE
    /\ malformed = [p \in Procs |-> FALSE]
    /\ served = <<>>


----------------------------------------------------------------------------
(* Steps of sync_tasks *)

\* The positions whose next step reads the clock (lines 160, 76,
\* 168/178/226) or the task service (line 85), or opens or writes the state
\* file with a clock value read earlier (lines 41, 42)
ReadsEnvironment(p) == pc[p] \in {"load", "fetch_source", "commit", "save", "dump"}

\* Between two such positions a process's steps read neither the clock nor
\* the task service, and starting a run reads neither: those steps commute
\* with the environment's.  So the environment moves only when a process is
\* about to observe it and none is in between.
EnvironmentMoves ==
    /\ \E p \in Procs : ReadsEnvironment(p)
    /\ \A p \in Procs : ReadsEnvironment(p) \/ pc[p] = "idle"

\* An uncaught exception: the traceback ends the process with status 1
Raise(p) ==
    /\ pc' = [pc EXCEPT ![p] = "crashed"]
    /\ exit_code' = [exit_code EXCEPT ![p] = 1]

Effect(p, e) == effects' = [effects EXCEPT ![p] = Append(@, e)]

\* lines 166-169: `if not completed_tasks` commits and returns
AfterFetchSource(items) == IF items = <<>> THEN "commit" ELSE "fetch_target"

\* An empty habit list goes on to the loop
AfterFetchTargetNoReturn(list) == "write_logs"

\* lines 176-179: `if not habits` commits and returns
AfterFetchTarget(list) == IF list = <<>> THEN "commit" ELSE "write_logs"

\* A task-list response that is not an object holding well-formed items
MalformedTasks(resp) ==
    \/ resp.kind \in {"raises", "empty", "items_number", "object_other", "array",
                     "array_items", "number"}
    \/ \E i \in 1..Len(resp.items) :
         ~resp.items[i].has_content \/ resp.items[i].date = "absent"

\* A habit-list response that is not a sequence of well-formed habits
MalformedHabits(resp) ==
    \/ resp.kind \in {"raises", "empty", "object_other", "number"}
    \/ \E i \in 1..Len(resp.list) : ~resp.list[i].has_name \/ ~resp.list[i].has_id

\* The process starts; lines 145-151
Invoke(p, token, key) ==
    /\ pc[p] = "idle"
    /\ runs < MaxRuns
    /\ runs' = runs + 1
    /\ run_id' = [run_id EXCEPT ![p] = runs + 1]
    /\ environ' = [environ EXCEPT ![p] = [token |-> token, key |-> key]]
    /\ IF CredentialsOk(token, key)
       THEN /\ pc' = [pc EXCEPT ![p] = "load"]
            /\ UNCHANGED exit_code
       ELSE /\ pc' = [pc EXCEPT ![p] = "exited"]
            /\ exit_code' = [exit_code EXCEPT ![p] = 1]
    /\ UNCHANGED <<clock, file, world, last_sync, since, until, completed_tasks, habits,
                   idx, synced_count, log_calls, effects, commit_timestamp, save_result,
                   submitted, honest, served, malformed>>

\* The process is gone, and its memory with it
Reap(p) ==
    /\ pc[p] \in {"done", "crashed", "exited"}
    /\ pc' = [pc EXCEPT ![p] = "idle"]
    /\ environ' = [environ EXCEPT ![p] = [token |-> "", key |-> ""]]
    /\ last_sync' = [last_sync EXCEPT ![p] = NoLastSync]
    /\ since' = [since EXCEPT ![p] = 0]
    /\ until' = [until EXCEPT ![p] = 0]
    /\ completed_tasks' = [completed_tasks EXCEPT ![p] = <<>>]
    /\ habits' = [habits EXCEPT ![p] = <<>>]
    /\ idx' = [idx EXCEPT ![p] = 0]
    /\ synced_count' = [synced_count EXCEPT ![p] = 0]
    /\ log_calls' = [log_calls EXCEPT ![p] = <<>>]
    /\ effects' = [effects EXCEPT ![p] = <<>>]
    /\ exit_code' = [exit_code EXCEPT ![p] = -1]
    /\ commit_timestamp' = [commit_timestamp EXCEPT ![p] = NoIso]
    /\ save_result' = [save_result EXCEPT ![p] = "none"]
    /\ malformed' = [malformed EXCEPT ![p] = FALSE]
    /\ UNCHANGED <<clock, file, world, runs, run_id, submitted, honest, served>>

\* lines 153-161
LoadState(p) ==
    /\ pc[p] = "load"
    /\ \E readable \in BOOLEAN :
         LET r == LoadSyncState(file, readable)
         IN  /\ Effect(p, "load")
             /\ last_sync' = [last_sync EXCEPT ![p] =
                   IF r.raised THEN @ ELSE LastSync(r)]
             /\ IF r.raised \/ (r.some /\ ~r.iso)
                THEN /\ Raise(p)
                     /\ UNCHANGED since
                ELSE /\ pc' = [pc EXCEPT ![p] = "fetch_source"]
                     /\ since' = [since EXCEPT ![p] = SinceDatetime(LastSync(r), clock)]
                     /\ UNCHANGED exit_code
    /\ UNCHANGED <<clock, file, world, runs, run_id, environ, until,
                   completed_tasks, habits, idx, synced_count, log_calls,
                   commit_timestamp, save_result, submitted, honest, served, malformed>>

\* lines 164-171 with get_completed_todoist_tasks, lines 72-89; line 171
\* raises on a truthy value that has no len()
FetchSource(p) ==
    /\ pc[p] = "fetch_source"
    /\ LET since_str == StrfMinute(since[p])
           now_str == StrfMinute(clock)
       IN  \E resp \in TaskResponses(since_str, now_str) :
             LET r == GetCompletedTodoistTasks(resp)
             IN  /\ until' = [until EXCEPT ![p] = now_str]
                 /\ honest' = (honest /\ resp = HonestResponse(since_str, now_str))
                 /\ malformed' = [malformed EXCEPT ![p] = MalformedTasks(resp)]
                 /\ Effect(p, "req_tasks")
                 /\ IF r.raised \/ ~r.sized
                    THEN /\ Raise(p)
                         /\ UNCHANGED completed_tasks
                    ELSE /\ completed_tasks' = [completed_tasks EXCEPT ![p] = r.items]
                         /\ pc' = [pc EXCEPT ![p] = AfterFetchSource(r.items)]
                         /\ UNCHANGED exit_code
    /\ UNCHANGED <<clock, file, world, runs, run_id, environ, last_sync, since, habits, idx,
                   synced_count, log_calls, commit_timestamp, save_result, submitted, served>>

\* lines 174-184 with get_habitify_habits, lines 92-110, for each process
\* of DOMAIN resps with the response it is given.  Line 184 raises on a
\* habit without a name and on a response that is not a sequence; an
\* exception of make_request ends the run at line 174.
FetchTargets(resps) ==
    LET Q == DOMAIN resps
        r(q) == GetHabitifyHabits(resps[q])
        ok(q) == /\ r(q).shape = "list"
                 /\ \A i \in 1..Len(r(q).list) : r(q).list[i].has_name
        at(q) == AfterFetchTarget(r(q).list)
    IN  /\ \A q \in Q : pc[q] = "fetch_target"
        /\ effects' = [q \in Procs |->
              IF q \in Q THEN Append(effects[q], "req_habits") ELSE effects[q]]
        /\ malformed' = [q \in Procs |->
              IF q \in Q THEN malformed[q] \/ MalformedHabits(resps[q])
              ELSE malformed[q]]
        /\ habits' = [q \in Procs |->
              IF q \in Q /\ ok(q) THEN r(q).list ELSE habits[q]]
        /\ idx' = [q \in Procs |->
              IF q \in Q /\ ok(q) THEN (IF at(q) = "write_logs" THEN 1 ELSE 0)
              ELSE idx[q]]
        /\ pc' = [q \in Procs |->
              IF q \notin Q THEN pc[q] ELSE IF ok(q) THEN at(q) ELSE "crashed"]
        /\ exit_code' = [q \in Procs |->
              IF q \in Q /\ ~ok(q) THEN 1 ELSE exit_code[q]]
        /\ UNCHANGED <<clock, file, world, runs, run_id, environ, last_sync,
                       since, until, completed_tasks, synced_count, log_calls,
                       commit_timestamp, save_result, submitted, honest, served>>

FetchTarget(p) ==
    /\ pc[p] = "fetch_target"
    /\ \E resp \in HabitResponses : FetchTargets(p :> resp)

\* One iteration of the loop of lines 188-221, then line 223 after the last
WriteLogs(p) ==
    /\ pc[p] = "write_logs"
    /\ LET task == completed_tasks[p][idx[p]]
           habit_map == HabitMap(habits[p])
           next == /\ idx' = [idx EXCEPT ![p] = @ + 1]
                   /\ pc' = [pc EXCEPT ![p] =
                         IF idx[p] = Len(completed_tasks[p])
                         THEN "commit" ELSE "write_logs"]
                   /\ UNCHANGED exit_code
           quiet == UNCHANGED <<synced_count, log_calls, effects, submitted>>
       IN  CASE ItemAccess(task) = "raised" ->
                  Raise(p) /\ UNCHANGED idx /\ quiet
             [] ItemAccess(task) = "skipped" ->
                  next /\ quiet
             [] ItemAccess(task) = "parsed"
                  /\ ~Matches(habit_map, task.content) ->
                  next /\ quiet
             [] ItemAccess(task) = "parsed"
                  /\ Matches(habit_map, task.content) ->
                  LET habit == habit_map[TaskKey(task.content)]
                  IN  IF ~habit.has_id
                      THEN Raise(p) /\ UNCHANGED idx /\ quiet
                      ELSE \E outcome \in LogOutcomes :
                             /\ Effect(p, "req_log")
                             /\ submitted' = submitted \cup
                                   {[run |-> run_id[p], task |-> task.id]}
                             /\ log_calls' = [log_calls EXCEPT ![p] = Append(@,
                                   [task |-> task.id, habit |-> habit.id,
                                    target_date |->
                                        TargetDate(CompletedAt(task.at)),
                                    result |-> LogResult(outcome)])]
                             /\ CASE LogResult(outcome) = "success" ->
                                       /\ synced_count' =
                                            [synced_count EXCEPT ![p] = @ + 1]
                                       /\ next
                                  [] LogResult(outcome) = "failure" ->
                                       /\ UNCHANGED synced_count
                                       /\ next
                                  [] LogResult(outcome) = "raised" ->
                                       /\ UNCHANGED <<synced_count, idx>>
                                       /\ Raise(p)
    /\ UNCHANGED <<clock, file, world, runs, run_id, environ, last_sync, since, until,
                   completed_tasks, habits, commit_timestamp, save_result, honest, served,
                   malformed>>

\* save_sync_state(datetime.now().isoformat()), lines 168, 178, 226
CommitState(p) ==
    /\ pc[p] = "commit"
    /\ \E us \in Micros, opened \in BOOLEAN :
         LET timestamp == IsoFormat(clock, us)
         IN  \E fl \in IF opened THEN Flushes(timestamp) ELSE {NoFlush} :
               /\ commit_timestamp' = [commit_timestamp EXCEPT ![p] = timestamp]
               /\ file' = SaveSyncState(file, timestamp, opened, fl)
               /\ save_result' = [save_result EXCEPT ![p] =
                     SaveResult(opened, fl)]
    /\ Effect(p, "save")
    /\ pc' = [pc EXCEPT ![p] = "done"]
    /\ exit_code' = [exit_code EXCEPT ![p] = 0]
    /\ UNCHANGED <<clock, world, runs, run_id, environ, last_sync, since, until,
                   completed_tasks, habits, idx, synced_count, log_calls,
                   submitted, honest, served, malformed>>

----------------------------------------------------------------------------
(* Environment *)

\* Time passes
Tick ==
    /\ EnvironmentMoves
    /\ clock < ClockStart + MaxTicks
    /\ clock' = clock + 1
    /\ UNCHANGED <<file, world, runs, pc, run_id, environ, last_sync, since, until,
                   completed_tasks, habits, idx, synced_count, log_calls,
                   effects, exit_code, commit_timestamp, save_result, submitted,
                   honest, served, malformed>>

\* The user completes a task in the task service
CompleteTask(name) ==
    /\ EnvironmentMoves
    /\ Len(world) < MaxTasks
    /\ world' = Append(world, [id |-> Len(world) + 1, content |-> name, at |-> clock])
    /\ UNCHANGED <<clock, file, runs, pc, run_id, environ, last_sync, since, until,
                   completed_tasks, habits, idx, synced_count, log_calls,
                   effects, exit_code, commit_timestamp, save_result, submitted,
                   honest, served, malformed>>

----------------------------------------------------------------------------
(* Sequential invocations: the scheduler starts a run only when none is    *)
(* in progress.  Over the runs of Spec at most MaxRepeatTasks tasks are    *)
(* completed.                                                              *)

Start(p) ==
    /\ \A q \in Procs : pc[q] = "idle"
    /\ \E token \in Tokens, key \in Tokens : Invoke(p, token, key)

Step(p) ==
    \/ LoadState(p)
    \/ FetchSource(p)
    \/ FetchTarget(p)
    \/ WriteLogs(p)
    \/ CommitState(p)
    \/ Reap(p)

Next ==
    \/ Start(Cron)
    \/ Step(Cron)
    \/ Tick
    \/ \E name \in TaskNames : Len(world) < MaxRepeatTasks /\ CompleteTask(name)

Spec == Init /\ [][Next]_vars

----------------------------------------------------------------------------
(* A single invocation, from every state file and with the environment    *)
(* free to move around it.                                                 *)

FirstStart(p) == runs = 0 /\ Start(p)

NextOneRun ==
    \/ FirstStart(Cron)
    \/ Step(Cron)
    \/ Tick
    \/ \E name \in TaskNames : CompleteTask(name)

OneRun == Init /\ [][NextOneRun]_vars

----------------------------------------------------------------------------
(* Two invocations that fetched the same tasks; the habit service holds    *)
(* one habit sequence and answers one with the sequence itself and the     *)
(* other with the same sequence under 'data'.  Each invocation's request   *)
(* is a step of its own, and either may run its loop before the other is   *)
(* answered.                                                               *)

Other == CHOOSE p \in Procs : p # Cron

TaskLists == UNION { [1..n -> TaskNames] : n \in 1..MaxTasks }

EnvelopeInit ==
    /\ clock = ClockStart + TicksPerMinute
    /\ file = OtherFile("missing")
    /\ \E names \in TaskLists :
          world = [i \in 1..Len(names) |->
                      [id |-> i, content |-> names[i], at |-> ClockStart]]
    /\ runs = Cardinality(Procs)
    /\ pc = [p \in Procs |-> "fetch_target"]
    /\ run_id = [p \in Procs |-> p]
    /\ environ = [p \in Procs |-> [token |-> "secret", key |-> "secret"]]
    /\ last_sync = [p \in Procs |-> NoLastSync]
    /\ since = [p \in Procs |-> SinceDatetime(NoLastSync, ClockStart)]
    /\ until = [p \in Procs |-> StrfMinute(clock)]
    /\ completed_tasks = [p \in Procs |->
          GetCompletedTodoistTasks(
              HonestResponse(StrfMinute(since[p]), until[p])).items]
    /\ habits = [p \in Procs |-> <<>>]
    /\ idx = [p \in Procs |-> 0]
    /\ synced_count = [p \in Procs |-> 0]
    /\ log_calls = [p \in Procs |-> <<>>]
    /\ effects = [p \in Procs |-> <<"load", "req_tasks">>]
    /\ exit_code = [p \in Procs |-> -1]
    /\ commit_timestamp = [p \in Procs |-> NoIso]
    /\ save_result = [p \in Procs |-> "none"]
    /\ submitted = {}
    /\ honest = TRUE
    /\ malformed = [p \in Procs |-> FALSE]
    /\ served \in HabitLists

\* lines 174-184 in one of the two: Cron is answered with the sequence,
\* Other with the sequence under 'data'
FetchTargetServed(p) ==
    /\ pc[p] = "fetch_target"
    /\ FetchTargets(p :> HabitResponse(IF p = Cron THEN "array" ELSE "object_data",
                                       served))

EnvelopeNext ==
    \/ \E p \in Procs : FetchTargetServed(p)
    \/ \E p \in Procs : WriteLogs(p)

Envelope == EnvelopeInit /\ [][EnvelopeNext]_vars

----------------------------------------------------------------------------
(* Simultaneous invocations: a run starts whatever the other process is    *)
(* doing.  The state commit is three steps here, as it is in the code: the *)
(* clock is read for the argument of save_sync_state, the file is opened   *)
(* and thereby emptied, and the record is written from offset 0 when       *)
(* json.dump and the close flush it; the other process may run in between  *)
(* any two of them.  No task is completed meanwhile, so every run that     *)
(* gets past the task fetch goes from it to the commit (lines 166-169),    *)
(* and the clock moves MaxOverlapTicks ticks at most.                      *)

\* A run starts only when no other is in progress
LaunchExclusive(p) ==
    /\ \A q \in Procs : pc[q] = "idle"
    /\ \E token \in Tokens, key \in Tokens : Invoke(p, token, key)

\* __main__: nothing is checked or locked before sync_tasks runs
Launch(p) == \E token \in Tokens, key \in Tokens : Invoke(p, token, key)

\* lines 168, 178, 226: datetime.now().isoformat(), the argument
CommitRead(p) ==
    /\ pc[p] = "commit"
    /\ \E us \in Micros :
         commit_timestamp' = [commit_timestamp EXCEPT ![p] = IsoFormat(clock, us)]
    /\ pc' = [pc EXCEPT ![p] = "save"]
    /\ UNCHANGED <<clock, file, world, runs, run_id, environ, last_sync, since,
                   until, completed_tasks, habits, idx, synced_count, log_calls,
                   effects, exit_code, save_result, submitted, honest, served,
                   malformed>>

\* line 41: open(SYNC_STATE_FILE, 'w') empties the file, or raises IOError,
\* which line 43 catches
CommitOpen(p) ==
    /\ pc[p] = "save"
    /\ \/ /\ file' = OpenTruncate(file)
          /\ pc' = [pc EXCEPT ![p] = "dump"]
          /\ UNCHANGED <<save_result, effects, exit_code>>
       \/ /\ save_result' = [save_result EXCEPT ![p] = "open_failed"]
          /\ Effect(p, "save")
          /\ pc' = [pc EXCEPT ![p] = "done"]
          /\ exit_code' = [exit_code EXCEPT ![p] = 0]
          /\ UNCHANGED file
    /\ UNCHANGED <<clock, world, runs, run_id, environ, last_sync, since, until,
                   completed_tasks, habits, idx, synced_count, log_calls,
                   commit_timestamp, submitted, honest, served, malformed>>

\* lines 42-44: json.dump and the close write the record over whatever the
\* file holds by then; when they raise IOError, a part of the record, or
\* all of it, may have been written
CommitWrite(p) ==
    /\ pc[p] = "dump"
    /\ \E fl \in Flushes(commit_timestamp[p]) :
         /\ file' = JsonDump(file, commit_timestamp[p], fl)
         /\ save_result' = [save_result EXCEPT ![p] = DumpResult(fl)]
    /\ Effect(p, "save")
    /\ pc' = [pc EXCEPT ![p] = "done"]
    /\ exit_code' = [exit_code EXCEPT ![p] = 0]
    /\ UNCHANGED <<clock, world, runs, run_id, environ, last_sync, since, until,
                   completed_tasks, habits, idx, synced_count, log_calls,
                   commit_timestamp, submitted, honest, served, malformed>>

ConcurrentStep(p) ==
    \/ LoadState(p)
    \/ FetchSource(p)
    \/ CommitRead(p)
    \/ CommitOpen(p)
    \/ CommitWrite(p)
    \/ Reap(p)

ConcurrentNext ==
    \/ \E p \in Procs : Launch(p)
    \/ \E p \in Procs : ConcurrentStep(p)
    \/ clock < ClockStart + MaxOverlapTicks /\ Tick

Concurrent == Init /\ [][ConcurrentNext]_vars

----------------------------------------------------------------------------
(* The loop of lines 188-221 alone, over every task sequence of up to      *)
(* MaxLoopTasks items whose dates are well-formed or malformed, and every  *)
(* non-empty sequence of named habits, as the habit fetch leaves the run   *)
(* when it is answered with that sequence.                                 *)

DatedLists ==
    UNION { [1..n -> TaskNames \X {"z", "malformed"}] : n \in 1..MaxLoopTasks }

NamedHabitLists ==
    {l \in HabitLists : l # <<>> /\ \A i \in 1..Len(l) : l[i].has_name}

LoopInit ==
    /\ clock = ClockStart + TicksPerMinute
    /\ file = OtherFile("missing")
    /\ \E dated \in DatedLists, l \in NamedHabitLists :
          /\ world = [i \in 1..Len(dated) |->
                        [id |-> i, content |-> dated[i][1], at |-> ClockStart]]
          /\ completed_tasks = [p \in Procs |->
                IF p = Cron
                THEN [i \in 1..Len(dated) |->
                        [TaskItem(world[i]) EXCEPT !.date = dated[i][2]]]
                ELSE <<>>]
          /\ habits = [p \in Procs |-> IF p = Cron THEN l ELSE <<>>]
    /\ honest = \A i \in 1..Len(world) : completed_tasks[Cron][i].date = "z"
    /\ runs = 1
    /\ pc = [p \in Procs |-> IF p = Cron THEN "write_logs" ELSE "idle"]
    /\ run_id = [p \in Procs |-> IF p = Cron THEN 1 ELSE 0]
    /\ environ = [p \in Procs |-> IF p = Cron
                                  THEN [token |-> "secret", key |-> "secret"]
                                  ELSE [token |-> "", key |-> ""]]
    /\ last_sync = [p \in Procs |-> NoLastSync]
    /\ since = [p \in Procs |-> IF p = Cron
                                THEN SinceDatetime(NoLastSync, ClockStart) ELSE 0]
    /\ until = [p \in Procs |-> IF p = Cron THEN StrfMinute(clock) ELSE 0]
    /\ idx = [p \in Procs |-> IF p = Cron THEN 1 ELSE 0]
    /\ synced_count = [p \in Procs |-> 0]
    /\ log_calls = [p \in Procs |-> <<>>]
    /\ effects = [p \in Procs |->
          IF p = Cron THEN <<"load", "req_tasks", "req_habits">> ELSE <<>>]
    /\ exit_code = [p \in Procs |-> -1]
    /\ commit_timestamp = [p \in Procs |-> NoIso]
    /\ save_result = [p \in Procs |-> "none"]
    /\ submitted = {}
    /\ malformed = [p \in Procs |->
          p = Cron /\ MalformedHabits(HabitResponse("array", habits[p]))]
    /\ served = <<>>

LoopNext == WriteLogs(Cron) \/ CommitState(Cron)

Loop == LoopInit /\ [][LoopNext]_vars

----------------------------------------------------------------------------
(* Properties *)

Count(seq, e) == Cardinality({i \in 1..Len(seq) : seq[i] = e})

Last(seq) == seq[Len(seq)]

\* The calls of create_habitify_log this run made for the task at position i
CallsFor(p, i) ==
    {k \in 1..Len(log_calls[p]) : log_calls[p][k].task = completed_tasks[p][i].id}

\* C1: every invocation that passes the credential check ends in the state
\* commit: no run ends otherwise, and a finished run called save_sync_state
\* exactly once, as its last effect.
C1_AlwaysCommits ==
    \A p \in Procs :
        /\ pc[p] # "crashed"
        /\ pc[p] = "done" =>
              /\ Count(effects[p], "save") = 1
              /\ Last(effects[p]) = "save"

\* C2: a valid persisted last_sync is never replaced by an earlier one, nor
\* by an absent or unreadable one.
C2_WatermarkNeverLost ==
    [][file.kind = "valid" =>
          /\ file'.kind = "valid"
          /\ FromIsoFormat(file'.last_sync) >= FromIsoFormat(file.last_sync)]_vars

\* C3: when the task service answers every request with exactly the tasks of
\* the requested window, no task has a log-create request in two invocations.
C3_AtMostOnce ==
    honest => \A a, b \in submitted : a.task = b.task => a.run = b.run

\* C4: the last_sync a run persists is the end of the window it requested,
\* so the next run's `since` is this run's `until`.
C4_PersistedIsWindowEnd ==
    \A p \in Procs :
        (pc[p] = "done" /\ save_result[p] = "ok") =>
            StrfMinute(FromIsoFormat(file.last_sync)) = until[p]

\* C5: with well-formed task and habit lists, whatever the log-create calls
\* answer, the run ends normally, every matched task has exactly one
\* log-create call, and the tally is the number of calls answered by a
\* truthy status.
C5_FailureIsolation ==
    \A p \in Procs :
        (pc[p] \in {"done", "crashed"} /\ Count(effects[p], "req_habits") = 1
           /\ ~malformed[p]) =>
            /\ pc[p] = "done"
            /\ \A i \in 1..Len(completed_tasks[p]) :
                  LET task == completed_tasks[p][i]
                  IN  (task.date = "z" /\ Matches(HabitMap(habits[p]), task.content))
                          => Cardinality(CallsFor(p, i)) = 1
            /\ synced_count[p] =
                  Cardinality({k \in 1..Len(log_calls[p]) :
                                  log_calls[p][k].result = "success"})

\* C6: a state file that holds no valid record is loaded like a missing
\* one: the run goes on, with the bootstrap window.
C6_InvalidFileAsMissing ==
    \A p \in Procs :
        (effects[p] = <<"load">> /\ file.kind # "valid") =>
            /\ pc[p] = "fetch_source"
            /\ since[p] + BootstrapMinutes * TicksPerMinute \in ClockStart..clock

TaskFetchEmpty(p) ==
    /\ pc[p] # "crashed"
    /\ Count(effects[p], "req_tasks") = 1
    /\ completed_tasks[p] = <<>>

HabitFetchEmpty(p) ==
    /\ pc[p] # "crashed"
    /\ Count(effects[p], "req_habits") = 1
    /\ habits[p] = <<>>

ShortCircuit(p) ==
    /\ TaskFetchEmpty(p) =>
          /\ pc[p] \in {"commit", "done"}
          /\ effects[p] \in {<<"load", "req_tasks">>, <<"load", "req_tasks", "save">>}
    /\ HabitFetchEmpty(p) =>
          /\ pc[p] \in {"commit", "done"}
          /\ effects[p] \in {<<"load", "req_tasks", "req_habits">>,
                             <<"load", "req_tasks", "req_habits", "save">>}
    /\ ((TaskFetchEmpty(p) \/ HabitFetchEmpty(p)) /\ pc[p] = "done") =>
          /\ Last(effects[p]) = "save"
          /\ save_result[p] \in SaveOutcomes

\* C7 as claimed: an empty task fetch or an empty habit fetch goes directly
\* to the state commit, no further request is issued, and the watermark is
\* advanced.
C7_ShortCircuitAdvances ==
    \A p \in Procs :
        /\ ShortCircuit(p)
        /\ ((TaskFetchEmpty(p) \/ HabitFetchEmpty(p)) /\ pc[p] = "done") =>
              \E us \in Micros : file = ValidFile(clock, us)

\* C7 as amended: an empty task fetch or an empty habit fetch goes directly
\* to the state commit, no further request is issued, save_sync_state is
\* called with the current time, and the watermark is advanced when that
\* write succeeds.
C7_ShortCircuitCommits ==
    \A p \in Procs :
        /\ ShortCircuit(p)
        /\ ((TaskFetchEmpty(p) \/ HabitFetchEmpty(p)) /\ pc[p] = "done"
              /\ save_result[p] = "ok") =>
              \E us \in Micros : file = ValidFile(clock, us)

C7_Witness ==
    \E p \in Procs :
        /\ pc[p] = "done"
        /\ HabitFetchEmpty(p)
        /\ save_result[p] = "ok"
        /\ completed_tasks[p] # <<>>

\* C8: with the token or the key absent or empty the process exits with a
\* non-zero status before any read or write of the state file and before
\* any request.
C8_MissingCredentialsFatal ==
    \A p \in Procs :
        (pc[p] # "idle" /\ (environ[p].token = "" \/ environ[p].key = "")) =>
            /\ pc[p] = "exited"
            /\ exit_code[p] # 0 /\ exit_code[p] # -1
            /\ effects[p] = <<>>

C8_Witness ==
    \E p \in Procs :
        /\ pc[p] = "exited"
        /\ environ[p] = [token |-> "secret", key |-> ""]
        /\ exit_code[p] = 1

\* C9: a malformed task-list or habit-list response is treated as no data:
\* the run does not abort and issues no log-create request.
C9_MalformedRecovered ==
    \A p \in Procs :
        malformed[p] =>
            /\ pc[p] # "crashed"
            /\ Count(effects[p], "req_log") = 0

\* str.strip() of spaces
RECURSIVE StripLeft(_)
StripLeft(s) == IF s # <<>> /\ Head(s) = " " THEN StripLeft(Tail(s)) ELSE s

RECURSIVE StripRight(_)
StripRight(s) ==
    IF s # <<>> /\ Last(s) = " " THEN StripRight(SubSeq(s, 1, Len(s) - 1)) ELSE s

Strip(s) == StripRight(StripLeft(s))

\* The run went through the whole loop of lines 188-221
LoopRan(p) == pc[p] = "done" /\ idx[p] = Len(completed_tasks[p]) + 1

\* C10 as claimed: a task gets a log-create request iff its lower-cased name
\* equals the lower-cased, trimmed name of some habit.
C10_MatchTrimmed ==
    \A p \in Procs :
        LoopRan(p) =>
            \A i \in 1..Len(completed_tasks[p]) :
                LET task == completed_tasks[p][i]
                IN  task.date = "z" =>
                      (CallsFor(p, i) # {} <=>
                          \E j \in 1..Len(habits[p]) :
                              Strip(Lower(habits[p][j].name)) = Lower(task.content))

\* C10 as amended: a task gets a log-create request iff its lower-cased name
\* equals the lower-cased name of some habit, untrimmed; the request goes to
\* the last such habit of the list.
C10_MatchExact ==
    \A p \in Procs :
        LoopRan(p) =>
            \A i \in 1..Len(completed_tasks[p]) :
                LET task == completed_tasks[p][i]
                    same == {j \in 1..Len(habits[p]) :
                                Lower(habits[p][j].name) = Lower(task.content)}
                IN  task.date = "z" =>
                      /\ CallsFor(p, i) # {} <=> same # {}
                      /\ \A k \in CallsFor(p, i) : \E j \in same :
                            /\ \A j2 \in same : j2 <= j
                            /\ log_calls[p][k].habit = habits[p][j].id

C10_Witness ==
    \E p \in Procs :
        /\ LoopRan(p)
        /\ Len(habits[p]) = 2
        /\ habits[p][1].name = <<" ", "r", "b", " ">>
        /\ habits[p][2].name = <<"R", "B">>
        /\ \E i \in 1..Len(completed_tasks[p]) :
              /\ completed_tasks[p][i].content = <<"R", "b">>
              /\ \E k \in CallsFor(p, i) : log_calls[p][k].habit = "h1"
        /\ \E i \in 1..Len(completed_tasks[p]) :
              /\ completed_tasks[p][i].content = <<"r", "a", "b">>
              /\ CallsFor(p, i) = {}

\* The UTC offsets of the host's local zone, in minutes
LocalOffsets == {0 - 30, 0, 420}

\* The instant t (UTC) as local wall time with the local offset, colon
\* written
LocalTime(t, off) ==
    [wall |-> IsoFormat(t + off * TicksPerMinute, 0),
     zone |-> ZoneOffset(IF off < 0 THEN "-" ELSE "+",
                         IF off < 0 THEN 0 - off ELSE off, TRUE)]

\* The completion time (UTC) of the task a log-create call was made for
CompletedTime(p, k) ==
    LET i == CHOOSE i \in 1..Len(completed_tasks[p]) :
                 completed_tasks[p][i].id = log_calls[p][k].task
    IN  completed_tasks[p][i].at

\* C11: whatever the local UTC offset, the target date of every log-create
\* request is the completion instant expressed in local time with the signed
\* local offset, colon written.
C11_TargetDateLocal ==
    \A p \in Procs : \A k \in 1..Len(log_calls[p]) : \A off \in LocalOffsets :
        log_calls[p][k].target_date = LocalTime(CompletedTime(p, k), off)

\* The run has sent its task-list request
WindowRequested(p) == Count(effects[p], "req_tasks") = 1

\* The step in which process p loads the state and goes on
Loaded(p) == pc[p] = "load" /\ pc'[p] = "fetch_source"

\* The step in which process p sends its task-list request
Requested(p) == pc[p] = "fetch_source" /\ pc'[p] # "fetch_source"

\* C12 as claimed: with nothing loaded, the requested window starts 60
\* minutes before the invocation time and ends at the invocation time, so it
\* is 60 minutes wide; with a last_sync loaded it starts at that last_sync.
C12_BootstrapWindow ==
    \A p \in Procs :
        WindowRequested(p) =>
            IF last_sync[p].some
            THEN StrfMinute(since[p]) = last_sync[p].v[1]
            ELSE StrfMinute(since[p]) = until[p] - 60

\* C12 as amended: with nothing loaded, the window start is the clock as read
\* after the load (line 160) minus 60 minutes; with a last_sync loaded it is
\* that last_sync; the window end is the clock as read again when the request
\* is built (line 76); start and end are sent at minute precision.
C12_WindowFromClockReads ==
    [][\A p \in Procs :
          /\ Loaded(p) =>
                since'[p] = IF last_sync'[p].some
                            THEN last_sync'[p].v[1] * TicksPerMinute + last_sync'[p].v[2]
                            ELSE clock - 60 * TicksPerMinute
          /\ Requested(p) =>
                /\ until'[p] = clock \div TicksPerMinute
                /\ since'[p] = since[p]
                /\ Last(effects'[p]) = "req_tasks"]_vars

C12_Witness ==
    \E p \in Procs :
        /\ WindowRequested(p)
        /\ ~last_sync[p].some
        /\ until[p] = StrfMinute(since[p]) + 61
        /\ completed_tasks[p] # <<>>

\* The (task, habit, target date) triples of the log-create calls of a run
MatchedPairs(p) ==
    {[task |-> log_calls[p][k].task, habit |-> log_calls[p][k].habit,
      target_date |-> log_calls[p][k].target_date] : k \in 1..Len(log_calls[p])}

HabitsFetched(p) == Count(effects[p], "req_habits") = 1

\* C13: of two runs with the same tasks, one given the habit sequence H
\* itself and the other H under 'data', both get the same habit sequence
\* from the fetch (or both fail on it alike), hence the same name-to-habit
\* map, and once through the loop the same set of matched pairs.
C13_EnvelopeTolerance ==
    (HabitsFetched(Cron) /\ HabitsFetched(Other)) =>
        /\ habits[Cron] = habits[Other]
        /\ HabitMap(habits[Cron]) = HabitMap(habits[Other])
        /\ (pc[Cron] = "crashed" /\ idx[Cron] = 0)
              <=> (pc[Other] = "crashed" /\ idx[Other] = 0)
        /\ (idx[Cron] = 0) <=> (idx[Other] = 0)
        /\ (pc[Cron] = "commit" /\ pc[Other] = "commit") =>
              MatchedPairs(Cron) = MatchedPairs(Other)

C13_Witness ==
    /\ pc[Cron] = "commit" /\ pc[Other] = "commit"
    /\ Len(habits[Other]) = 2
    /\ Len(completed_tasks[Cron]) = 2
    /\ Cardinality(MatchedPairs(Cron)) = 1
    /\ MatchedPairs(Cron) = MatchedPairs(Other)

\* The position in the sequence of the task of the k-th log-create call
PositionOf(p, k) ==
    CHOOSE i \in 1..Len(completed_tasks[p]) :
        completed_tasks[p][i].id = log_calls[p][k].task

\* The loop has reached position i and gone past it
Passed(p, i) == pc[p] \in {"write_logs", "commit", "done", "crashed"} /\ i < idx[p]

\* C14: a task whose completion timestamp is malformed gets no log-create
\* request, is not counted and does not end the run; the tasks before and
\* after it are processed, in the order of the sequence: every matched
\* well-formed task the loop has passed has its one request, the requests
\* are in sequence order, and the tally counts the successful requests.
C14_BadDateSkipped ==
    \A p \in Procs :
        /\ \A i \in 1..Len(completed_tasks[p]) :
              LET task == completed_tasks[p][i]
              IN  /\ (task.has_content /\ task.date = "malformed") =>
                        /\ CallsFor(p, i) = {}
                        /\ ~(pc[p] = "crashed" /\ idx[p] = i)
                  /\ (Passed(p, i) /\ task.date = "z"
                         /\ Matches(HabitMap(habits[p]), task.content)) =>
                        Cardinality(CallsFor(p, i)) = 1
        /\ \A k1, k2 \in 1..Len(log_calls[p]) :
              k1 < k2 => PositionOf(p, k1) < PositionOf(p, k2)
        /\ synced_count[p] =
              Cardinality({k \in 1..Len(log_calls[p]) :
                              log_calls[p][k].result = "success"})

C14_Witness ==
    \E p \in Procs :
        /\ pc[p] = "done"
        /\ Len(completed_tasks[p]) = 3
        /\ completed_tasks[p][2].date = "malformed"
        /\ Matches(HabitMap(habits[p]), completed_tasks[p][2].content)
        /\ Len(log_calls[p]) = 2
        /\ log_calls[p][1].task = completed_tasks[p][1].id
        /\ log_calls[p][2].task = completed_tasks[p][3].id
        /\ synced_count[p] = 2

\* A step changes the state file only if it is some run's state commit
FileFrame == file' # file => \E p \in Procs : pc[p] = "commit" /\ pc'[p] = "done"

\* The run has computed its window start and has not committed: the points
\* at which it may be killed, and the state an uncaught exception leaves
BeforeCommit(p) ==
    \/ pc[p] \in {"fetch_source", "fetch_target", "write_logs", "commit"}
    \/ pc[p] = "crashed" /\ Len(effects[p]) > 1

\* The window start of a run that loads the state file as it is now
NextSince(readable) == SinceDatetime(LastSync(LoadSyncState(file, readable)), clock)

\* C15 as claimed: the state file is modified only in the state commit, and
\* whenever a run stops before its commit, the next run starts its window
\* where the stopped run started it.
C15_FrameSameStart ==
    /\ [][FileFrame]_vars
    /\ [](\A p \in Procs : BeforeCommit(p) =>
             \A readable \in BOOLEAN :
                 StrfMinute(NextSince(readable)) = StrfMinute(since[p]))

\* C15 as amended: the state file is modified only in the state commit; a
\* run that loaded a last_sync and stops before its commit leaves that
\* last_sync in the file, and a next run that reads it starts its window at
\* the same point.
C15_FrameSameWatermark ==
    /\ [][FileFrame]_vars
    /\ [](\A p \in Procs : (BeforeCommit(p) /\ last_sync[p].some) =>
             /\ file.kind = "valid"
             /\ file.last_sync = last_sync[p].v
             /\ since[p] = file.last_sync[1] * TicksPerMinute + file.last_sync[2]
             /\ NextSince(TRUE) = since[p])

C15_Witness ==
    \E p \in Procs :
        /\ pc[p] = "crashed"
        /\ last_sync[p].some
        /\ \E us \in Micros : file = ValidFile(since[p], us)
        /\ Len(log_calls[p]) = 1
        /\ clock > ClockStart

\* A step that replaces a valid record by a valid record of an earlier time
WatermarkLowered ==
    /\ file.kind = "valid" /\ file'.kind = "valid"
    /\ FromIsoFormat(file'.last_sync) < FromIsoFormat(file.last_sync)

\* The write of an invocation that read its clock before the time of the
\* record on file; it had emptied the file when it opened it, so the record
\* is one another invocation wrote since
LateWrite(p) ==
    /\ pc[p] = "dump" /\ pc'[p] = "done"
    /\ FromIsoFormat(commit_timestamp[p]) < FromIsoFormat(file.last_sync)
    /\ \E q \in Procs \ {p} : run_id[q] # 0

\* No invocation waits for another
NeverWaits ==
    \A p \in Procs :
        /\ (pc[p] = "idle" /\ runs < MaxRuns) => ENABLED Launch(p)
        /\ pc[p] = "load" => ENABLED LoadState(p)
        /\ pc[p] = "commit" => ENABLED CommitRead(p)
        /\ pc[p] = "save" => ENABLED CommitOpen(p)
        /\ pc[p] = "dump" => ENABLED CommitWrite(p)

\* C16: simultaneous invocations are not guarded against.  An invocation
\* can start while another is running, and its load, its clock read for the
\* commit, its opening and its write of the state file never wait for the
\* other; two invocations that loaded the same last_sync and have not
\* committed hold the same window start; and the only step that moves the
\* last_sync on file back in time is the late write of an overlapping
\* invocation: one that read its clock before the time of the record it
\* replaces, which another invocation wrote after this one had opened the
\* file.
C16_NoMutualExclusion ==
    /\ []NeverWaits
    /\ [](\A p, q \in Procs :
            (BeforeCommit(p) /\ BeforeCommit(q) /\ last_sync[p].some
               /\ last_sync[p] = last_sync[q]) => since[p] = since[q])
    /\ [][WatermarkLowered => \E p \in Procs : LateWrite(p)]_vars

\* Both invocations loaded the same last_sync (neither had committed), both
\* requested the same window, both saved, and the file holds the earlier of
\* the two timestamps: the later one was written first and then replaced.
C16_Witness ==
    /\ \A p \in Procs : pc[p] = "done" /\ save_result[p] = "ok"
    /\ last_sync[Cron].some /\ last_sync[Cron] = last_sync[Other]
    /\ since[Cron] = since[Other] /\ until[Cron] = until[Other]
    /\ \E p, q \in Procs :
          /\ file.kind = "valid" /\ file.last_sync = commit_timestamp[q]
          /\ FromIsoFormat(commit_timestamp[q]) < FromIsoFormat(commit_timestamp[p])

====
